---- MODULE Spec2Model ----
(***************************************************************************)
(* CSI capture receiver (src/main/reciv.c): the capture callback           *)
(* wifi_csi_cb appends framed CSI payloads to the ring buffer g_buffer;    *)
(* the task usb_flush_task drains it to the USB serial transport.  The     *)
(* callback runs to completion (one action); the task takes one step for   *)
(* every read of a shared volatile variable, in the order of the source,   *)
(* so that the callback can run between any two of them.                   *)
(*                                                                         *)
(* The sizes of the program are scaled down (Capacity, Threshold,          *)
(* ChunkBytes stand for 1024*120, 1024 and 8192); the header keeps its     *)
(* real size and layout, and integers keep their C widths.                 *)
(*                                                                         *)
(* A copy that runs past the end of g_buffer has undefined behaviour.  Its *)
(* outcome depends on what the build places after the array (layout):      *)
(* nothing the program reads ("apart"), or g_write_head, g_read_head and   *)
(* g_packet_count in the order of their definitions, after the padding     *)
(* that aligns them, and the staging buffer chunk of the task at the next  *)
(* aligned address ("adjacent"), in which case the copy overwrites them.   *)
(* past_end is the memory after the array, as far as the program has       *)
(* written it; in the adjacent layout the cursors and chunk are bytes of   *)
(* it.  A copy that runs past the objects of the program, and a memcpy of  *)
(* the task outside g_buffer, can end the program (pc = "fault").          *)
(*                                                                         *)
(* chunk is a static array: the bytes of it that a memcpy does not write   *)
(* keep what earlier iterations staged.  The memcpy of the task is not     *)
(* atomic: a callback that runs while it copies leaves in chunk, for each  *)
(* byte it rewrote, the byte before or after (PreemptedCopy, part of the   *)
(* callback's action).  The two reads of the cursors in one expression of  *)
(* the task are unsequenced: either is loaded first (first_load).          *)
(*                                                                         *)
(* The task reads the tick count of the scheduler, which vTaskDelay(1)     *)
(* advances by one tick; the callback reads the microsecond timer, which   *)
(* advances with the arrival of the capture events.  The tick rate is a    *)
(* parameter of the build (tick_rate_hz): the default of the framework,    *)
(* and in SpecLive one tick a second, so that a heartbeat comes due within *)
(* the MaxLiveTicks ticks of its runs.  The other runs last MaxTicks       *)
(* ticks.                                                                  *)
(*                                                                         *)
(* Spec is the receiver with frames of one length.  The other              *)
(* specifications run the same callback and task on other inputs: SpecFew  *)
(* with fewer events, SpecAnyLength with payloads of several lengths,      *)
(* SpecWide with the largest 16-bit payload length, SpecLongRun with       *)
(* pauses that carry the microsecond clock past 2^32, SpecLive with the    *)
(* task scheduled again and again, SpecDrain with such a task and a        *)
(* transport that accepts at least one byte of every chunk.  SpecBlaster   *)
(* is the packet generator (src/main/blaster.c), a program of its own      *)
(* whose variables the receiver leaves alone.                              *)
(***************************************************************************)
EXTENDS Integers, Sequences, FiniteSets, TLC

\* ------------------------------------------------------------ bounds
\* Scaled capacity of the ring buffer (not a power of two, like 1024*120).
Capacity == 30
\* Scaled minimum send threshold (1024 in the program).
Threshold == 4
\* Scaled staging-buffer size (8192 in the program).
ChunkBytes == 8
\* Number of capture events in a run.
MaxEvents == 4
\* Number of capture events in a short run.
MaxFewEvents == 3
\* Number of capture events in a run with payloads of any length.
MaxAnyLengthEvents == 2
\* Number of capture events in a run with payloads of the largest length.
MaxWideEvents == 1
\* Number of capture events in a run of the scheduled task.
MaxLiveEvents == 2
\* Number of ticks the task sleeps in a run.
MaxTicks == 1
\* Number of ticks the task sleeps in a run of the scheduled task.
MaxLiveTicks == 3
\* Number of calls of esp_now_send in a run of the packet generator.
MaxSends == 7

\* ------------------------------------------------------------ program constants
BUFFER_SIZE == Capacity
SEND_THRESHOLD == Threshold
CHUNK_SIZE == ChunkBytes
RX_CHANNEL == 6
MAGIC_BYTE == 64250
HEADER_SIZE == 10
HEARTBEAT_MS == 2000
\* The tick rate of the build (CONFIG_FREERTOS_HZ, 1 to 1000; the source
\* sets none): the default of the framework, and the lowest.
configTICK_RATE_HZ == 100
SlowTickRateHz == 1
U16 == 65536

\* ------------------------------------------------------------ machine integers
\* A uint32_t value v is held as the 32-bit pattern read as a signed integer:
\* v itself below 2^31, v - 2^32 from 2^31 on.
U32Gt(a, b) == IF (a >= 0) = (b >= 0) THEN a > b ELSE a < 0
U32Le(a, b) == ~U32Gt(a, b)

\* The two 16-bit halves of a pattern, and the pattern of two halves.
U32Lo(v) == v % U16
U32Hi(v) == (v \div U16) % U16
U32Pack(hi, lo) == IF hi >= 32768 THEN ((hi - U16) * U16) + lo ELSE (hi * U16) + lo

\* uint32_t a + b and a - b, modulo 2^32.
U32Add(a, b) ==
    LET lo == U32Lo(a) + U32Lo(b)
        hi == U32Hi(a) + U32Hi(b) + (lo \div U16)
    IN  U32Pack(hi % U16, lo % U16)
U32Sub(a, b) ==
    LET lo == U32Lo(a) - U32Lo(b) + U16
        hi == U32Hi(a) - U32Hi(b) - 1 + (lo \div U16) + U16
    IN  U32Pack(hi % U16, lo % U16)

\* uint32_t v + 1.
U32Inc(v) == IF v = 2147483647 THEN (-2147483647) - 1 ELSE v + 1

\* uint32_t a % m, for 0 < m < 2^30 (2^32 % m is taken from 2^31 - 1).
U32Mod(a, m) ==
    IF a >= 0 THEN a % m
    ELSE ((a % m) + ((2 * ((2147483647 % m) + 1)) % m)) % m

\* Byte k (0 the lowest) of a uint32_t in memory, and the uint32_t of four
\* bytes in memory (the target is little-endian).
U32Byte(v, k) ==
    IF k = 0 THEN U32Lo(v) % 256
    ELSE IF k = 1 THEN U32Lo(v) \div 256
    ELSE IF k = 2 THEN U32Hi(v) % 256
    ELSE U32Hi(v) \div 256
U32Word(b) == U32Pack(b[2] + (256 * b[3]), b[0] + (256 * b[1]))

\* The 64-bit microsecond clock is held as hi * 65536 + lo.
Clock(us) == [hi |-> us \div U16, lo |-> us % U16]
ClockAdd(c, d) ==
    [hi |-> c.hi + d.hi + ((c.lo + d.lo) \div U16), lo |-> (c.lo + d.lo) % U16]
\* (uint32_t) c: the low 32 bits, as little-endian bytes.
ClockLow32Bytes(c) ==
    << c.lo % 256, c.lo \div 256, c.hi % 256, (c.hi \div 256) % 256 >>

\* ------------------------------------------------------------ encoding
\* Little-endian bytes of an unsigned value (the target is little-endian).
LE16(v) == << v % 256, (v \div 256) % 256 >>

\* int8_t stored in one byte (two's complement).
I8Byte(v) == (v + 256) % 256

\* packet_header_t as the packed bytes the callback copies into the buffer:
\* magic, len, rssi, channel, timestamp (the 64-bit clock cut to 32 bits).
packet_header_t(data_len, rssi, channel, time_us) ==
    LE16(MAGIC_BYTE) \o LE16(data_len % U16) \o << I8Byte(rssi) >>
        \o << channel % 256 >> \o ClockLow32Bytes(time_us)

\* ------------------------------------------------------------ capture events
\* The CSI data of an event of length n (bytes).
CsiData(n) == [i \in 1..n |-> (160 + i) % 256]

RssiValues == {-40}

\* The time between two capture events, in microseconds: the clock advances
\* with the arrival of the events.
ArrivalGaps == {1100000}

\* The CSI payload lengths the capture events carry.
PayloadLens == {2}

\* wifi_csi_info_t as the callback sees it; info_null stands for a null
\* descriptor, buf_null for a null payload pointer.
ValidInfo ==
    { [info_null |-> FALSE, buf_null |-> FALSE, len |-> n, buf |-> CsiData(n),
       rssi |-> s, channel |-> RX_CHANNEL] : n \in PayloadLens, s \in RssiValues }

MalformedInfo ==
    { [info_null |-> TRUE,  buf_null |-> TRUE,  len |-> 0, buf |-> << >>,
       rssi |-> 0, channel |-> 0],
      [info_null |-> FALSE, buf_null |-> TRUE,  len |-> 1, buf |-> << >>,
       rssi |-> -40, channel |-> RX_CHANNEL],
      [info_null |-> FALSE, buf_null |-> FALSE, len |-> 0, buf |-> << >>,
       rssi |-> -40, channel |-> RX_CHANNEL] }

CsiInfo == ValidInfo \cup MalformedInfo

\* No capture event yet.
NoInfo == [info_null |-> TRUE, buf_null |-> TRUE, len |-> 0, buf |-> << >>,
           rssi |-> 0, channel |-> 0]

\* ------------------------------------------------------------ statics
\* g_buffer is aligned(4) and the cursors are 4-byte words: the bytes between
\* the end of the array and the next word boundary.
AlignPad == (4 - (BUFFER_SIZE % 4)) % 4

\* The offsets past the end of the array at which an "adjacent" build holds
\* the three cursors.
WriteHeadAt == AlignPad
ReadHeadAt == AlignPad + 4
PacketCountAt == AlignPad + 8

\* The end of the cursors of an "adjacent" build, past the end of the array.
AfterSize == PacketCountAt + 4

\* The static array chunk of line 103 is the next object of such a build; the
\* compiler aligns an array of its size to 8 bytes.
ChunkAlign == 8
ChunkAt ==
    AfterSize + ((ChunkAlign - ((BUFFER_SIZE + AfterSize) % ChunkAlign)) % ChunkAlign)

\* The bytes past the end of the array that a copy can write and return: in
\* an "adjacent" build the objects of the program there (the padding, the
\* cursors, chunk), else the bytes the header copy of line 75 can reach.
MappedAfter(lay) ==
    IF lay = "adjacent" THEN ChunkAt + CHUNK_SIZE ELSE HEADER_SIZE - 1

\* n bytes of a static object never written.
Zeroes(n) == [i \in 1..n |-> 0]

\* ------------------------------------------------------------ state
VARIABLES
    layout,          \* what the build places after g_buffer
    tick_rate_hz,    \* configTICK_RATE_HZ of the build
    g_buffer,        \* the backing store, indices 0 .. BUFFER_SIZE-1
    past_end,        \* the memory after g_buffer: past_end[i] is g_buffer[BUFFER_SIZE + i - 1]
    g_write_head,
    g_read_head,
    g_packet_count,
    clock_us,        \* esp_timer_get_time()
    ticks,           \* xTaskGetTickCount()
    pc,              \* position of usb_flush_task in its loop body
    now,             \* usb_flush_task locals
    last_log,
    status_out,      \* the status lines printed so far (the count each reports)
    first_load,      \* lines 114-116: the cursor an expression read first
    operand,         \* lines 114-116: its value as read
    cond_ge,         \* line 114: outcome of g_write_head >= g_read_head
    available,
    send_len,
    copy_from,       \* line 121: the index of &g_buffer[g_read_head]
    chunk,           \* line 103: the static array (chunk[k] is chunk[k - 1] of the code)
    written,         \* line 123
    rh_load,         \* line 124: g_read_head as read for the addition
    \* history of the run, read by the properties only
    n_accepted,      \* capture events after which g_write_head advanced
    n_rejected,      \* capture events dropped by the fullness test
    n_malformed,     \* capture events that failed validation
    appended,        \* bytes of the accepted frames, in order of acceptance
    drained,         \* bytes the transport accepted, in order
    unsent,          \* bytes the last transport write offered but did not accept
    last_info,       \* the descriptor of the last capture event
    \* the packet generator (src/main/blaster.c), a program of its own
    seq,             \* blaster_task: payload.seq
    blaster_pc,      \* position of blaster_task
    sent             \* the calls of esp_now_send so far: the seq carried, the result

vars == << layout, tick_rate_hz, g_buffer, past_end, g_write_head, g_read_head, g_packet_count,
           clock_us, ticks, pc, now, last_log, status_out, first_load, cond_ge, operand,
           available, send_len, copy_from, chunk, written, rh_load,
           n_accepted, n_rejected, n_malformed, appended, drained, unsent,
           last_info, seq, blaster_pc, sent >>

build == << layout, tick_rate_hz >>
shared == << g_buffer, past_end, g_write_head, g_read_head, g_packet_count >>
locals == << now, last_log, status_out, first_load, cond_ge, operand, available,
             send_len, copy_from, chunk, written, rh_load >>
task == << pc, locals >>
history == << n_accepted, n_rejected, n_malformed, appended, drained, unsent,
             last_info >>
receiver == << build, shared, clock_us, ticks, task, history >>
blaster == << seq, blaster_pc, sent >>

\* The builds: the linker places the three cursors elsewhere, or right after
\* the array in the order of lines 33-35.
Layouts == {"apart", "adjacent"}

\* The state after construction, in a build with a tick rate of hz.
Started(hz) ==
    /\ layout \in Layouts
    /\ tick_rate_hz = hz
    /\ g_buffer = [i \in 0..(BUFFER_SIZE - 1) |-> 0]
    /\ past_end = Zeroes(MappedAfter(layout))
    /\ g_write_head = 0
    /\ g_read_head = 0
    /\ g_packet_count = 0
    /\ clock_us = Clock(0)
    /\ ticks = 0
    /\ pc = "heartbeat"
    /\ now = 0
    /\ last_log = 0
    /\ status_out = << >>
    /\ first_load = "none"
    /\ cond_ge = FALSE
    /\ operand = 0
    /\ available = 0
    /\ send_len = 0
    /\ copy_from = 0
    /\ chunk = Zeroes(CHUNK_SIZE)
    /\ written = 0
    /\ rh_load = 0
    /\ n_accepted = 0
    /\ n_rejected = 0
    /\ n_malformed = 0
    /\ appended = << >>
    /\ drained = << >>
    /\ unsent = << >>
    /\ last_info = NoInfo
    /\ seq = 0
    /\ blaster_pc = "start"
    /\ sent = << >>

Init == Started(configTICK_RATE_HZ)

\* ------------------------------------------------------------ memory
\* Copy of bytes to &g_buffer[at]: the part that lands inside the array.
CopyInside(buf, at, bytes) ==
    [i \in 0..(BUFFER_SIZE - 1) |->
        IF i >= at /\ i < at + Len(bytes) THEN bytes[i - at + 1] ELSE buf[i]]

\* The same copy: the part that lands past the end of the array, in the
\* memory img there (at is no further than the end of img).  An "adjacent"
\* build has the bytes as far as the copy ran; an "apart" build has other
\* objects there, of which the model follows the first bytes only.
CopyPastEnd(lay, img, at, bytes) ==
    LET before == IF at > BUFFER_SIZE THEN at - BUFFER_SIZE ELSE 0
        over   == SubSeq(bytes, (IF at < BUFFER_SIZE THEN BUFFER_SIZE - at ELSE 0) + 1,
                         Len(bytes))
        all    == SubSeq(img, 1, before) \o over
                     \o SubSeq(img, before + Len(over) + 1, Len(img))
    IN  IF lay = "adjacent" THEN all ELSE SubSeq(all, 1, Len(img))

\* A uint32_t in memory: four bytes, the lowest first.
U32Bytes(v) == << U32Byte(v, 0), U32Byte(v, 1), U32Byte(v, 2), U32Byte(v, 3) >>

\* The memory after the array as a read of it finds it: in an "adjacent"
\* build the bytes of the cursors are the cursors, and the bytes from ChunkAt
\* on are chunk (ch: the array, and the bytes after it that a memcpy of the
\* task wrote).
AfterImage(lay, mem, wh, rh, count, ch) ==
    IF lay # "adjacent" THEN mem
    ELSE SubSeq(mem, 1, WriteHeadAt)
             \o U32Bytes(wh) \o U32Bytes(rh) \o U32Bytes(count)
             \o SubSeq(mem, AfterSize + 1, ChunkAt)
             \o ch
             \o SubSeq(mem, ChunkAt + Len(ch) + 1, Len(mem))

\* The uint32_t v that an "adjacent" build holds off bytes past the end of
\* the array, once that memory is img.
WordAt(lay, img, off, v) ==
    IF lay = "adjacent" THEN U32Word([k \in 0..3 |-> img[off + k + 1]]) ELSE v

\* chunk (ch before), once the memory after the array is img.
ChunkIn(lay, img, ch) ==
    IF lay = "adjacent" THEN SubSeq(img, ChunkAt + 1, ChunkAt + Len(ch)) ELSE ch

\* The memory the callback writes and the task reads: the array, the bytes
\* after it, the three cursors, chunk, and whether a copy ran past the
\* objects of the program.
Memory(buf, mem, wh, rh, count, ch) ==
    [buf |-> buf, past |-> mem, wh |-> wh, rh |-> rh, count |-> count,
     chunk |-> ch, beyond |-> FALSE]

\* fast_copy_asm(&g_buffer[at], src, n): words, then the remaining bytes, in
\* order; and memcpy(&g_buffer[at], src, n).  The destination is not checked
\* against the array.
fast_copy_asm(lay, m, at, bytes) ==
    IF Len(bytes) = 0 THEN m
    ELSE LET was == AfterImage(lay, m.past, m.wh, m.rh, m.count, m.chunk)
         IN  IF at < 0 \/ at > BUFFER_SIZE + Len(was)
             THEN [m EXCEPT !.beyond = TRUE]
             ELSE LET img == CopyPastEnd(lay, was, at, bytes)
                  IN  [buf    |-> CopyInside(m.buf, at, bytes),
                       past   |-> img,
                       wh     |-> WordAt(lay, img, WriteHeadAt, m.wh),
                       rh     |-> WordAt(lay, img, ReadHeadAt, m.rh),
                       count  |-> WordAt(lay, img, PacketCountAt, m.count),
                       chunk  |-> ChunkIn(lay, img, m.chunk),
                       beyond |-> m.beyond
                                     \/ at + Len(bytes)
                                           > BUFFER_SIZE + MappedAfter(lay)]

\* The content of the memory that the program has not written and the model
\* does not follow, as a read finds it: zeroes (statics never written) or
\* ones.
OtherMemory == {0, 255}

\* The bytes a read of n bytes at &g_buffer[from] finds: bytes of the array
\* and of the memory after it, then bytes of the memory the model does not
\* follow (from is a uint32_t: a source of 2^31 or more is past every
\* address the model follows).
ReadBytes(lay, m, from, n, other) ==
    LET all  == [i \in 1..BUFFER_SIZE |-> m.buf[i - 1]]
                   \o AfterImage(lay, m.past, m.wh, m.rh, m.count, m.chunk)
        have == IF from < 0 \/ from >= Len(all) THEN 0
                ELSE IF from + n > Len(all) THEN Len(all) - from ELSE n
    IN  SubSeq(all, from + 1, from + have) \o [i \in 1..(n - have) |-> other]

\* ------------------------------------------------------------ wifi_csi_cb
\* Lines 58-60 (total_len is a uint16_t).
total_len(info) == (HEADER_SIZE + info.len) % U16

next_head(info, wh) == (wh + total_len(info)) % BUFFER_SIZE

\* The validation without the test of the length.
Malformed_NoLenCheck(info) == info.info_null \/ info.buf_null

\* Line 51: the validation of the descriptor.
Malformed(info) == info.info_null \/ info.buf_null \/ info.len = 0

\* Line 62: the fullness test.
BufferFull(info, wh, rh) == next_head(info, wh) = rh

\* Lines 51 and 62: the callback reaches the copy.
Stores(info, wh, rh) == ~Malformed(info) /\ ~BufferFull(info, wh, rh)

\* Lines 64-69.
Header(info, time_us) == packet_header_t(info.len, info.rssi, info.channel, time_us)

\* Lines 71-76: the memory after the copy.  Line 73 reads g_write_head again,
\* after the copy of line 72.
StoreFrame(lay, m, info, time_us) ==
    IF m.wh + total_len(info) <= BUFFER_SIZE
    THEN LET h == fast_copy_asm(lay, m, m.wh, Header(info, time_us))
         IN  fast_copy_asm(lay, h, U32Add(h.wh, HEADER_SIZE), info.buf)
    ELSE fast_copy_asm(lay, m, m.wh, Header(info, time_us))

\* Lines 51-56: g_packet_count after line 56.
PacketCountAfter(info, count) == IF Malformed(info) THEN count ELSE U32Inc(count)

\* The header copied before the fullness test.
CallbackReturn_CopyFirst(lay, info, m, time_us) ==
    IF Malformed(info) THEN m
    ELSE IF BufferFull(info, m.wh, m.rh)
    THEN fast_copy_asm(lay, [m EXCEPT !.count = PacketCountAfter(info, m.count)],
                       m.wh, Header(info, time_us))
    ELSE [StoreFrame(lay, [m EXCEPT !.count = PacketCountAfter(info, m.count)],
                     info, time_us)
            EXCEPT !.wh = next_head(info, m.wh)]

\* Lines 51-77: the memory when the callback returns.
CallbackReturn(lay, info, m, time_us) ==
    IF Malformed(info) THEN m
    ELSE IF BufferFull(info, m.wh, m.rh)
    THEN [m EXCEPT !.count = PacketCountAfter(info, m.count)]
    ELSE [StoreFrame(lay, [m EXCEPT !.count = PacketCountAfter(info, m.count)],
                     info, time_us)
            EXCEPT !.wh = next_head(info, m.wh)]

\* A capture event that is malformed: null descriptor, null payload, no length.
EventMalformed(info) == info.info_null \/ info.buf_null \/ info.len = 0

\* The bytes of the frame of a capture event: the header, then the payload.
FrameBytes(info, time_us) == Header(info, time_us) \o info.buf

EventsLeft == n_accepted + n_rejected + n_malformed < MaxEvents

\* The memory as the callback finds it at entry, and as a read in the task
\* finds it.
StoreNow ==
    Memory(g_buffer, past_end, g_write_head, g_read_head, g_packet_count, chunk)

\* Line 121 preempted: the callback ran while the memcpy of the task was
\* reading the store (the task has read g_read_head for the source and the
\* transport has not read chunk yet).  before and after are the memory at the
\* entry and at the return of the callback.  The copy races with the
\* callback: each byte that the callback rewrote, in the source or in chunk
\* itself, is copied before or after, in no order the program fixes.
PreemptedCopy(before, after) ==
    LET ch == after.chunk
    IN  IF pc # "write" THEN {ch}
        ELSE LET old == ReadBytes(layout, before, copy_from, send_len, 0)
                 new == ReadBytes(layout, after, copy_from, send_len, 0)
                 rewritten == {i \in 1..send_len :
                                  old[i] # new[i] \/ ch[i] # before.chunk[i]}
             IN  { [i \in 1..Len(ch) |-> IF i \in late THEN new[i] ELSE ch[i]] :
                   late \in SUBSET rewritten }

\* The callback called with info at time now_us, from entry to return.  A
\* copy that ran past the memory the model follows ends the program or not.
CaptureEvent(info, now_us) ==
    LET stored == Stores(info, g_write_head, g_read_head)
        full   == ~Malformed(info) /\ BufferFull(info, g_write_head, g_read_head)
        m      == CallbackReturn(layout, info, StoreNow, now_us)
    IN  /\ pc # "fault"
        /\ clock_us' = now_us
        /\ g_buffer' = m.buf
        /\ g_write_head' = m.wh
        /\ g_read_head' = m.rh
        /\ g_packet_count' = m.count
        /\ chunk' \in PreemptedCopy(StoreNow, m)
        /\ past_end' = AfterImage(layout, m.past, m.wh, m.rh, m.count, chunk')
        /\ pc' \in (IF m.beyond THEN {pc, "fault"} ELSE {pc})
        /\ last_info' = info
        /\ n_malformed' = n_malformed + (IF EventMalformed(info) THEN 1 ELSE 0)
        /\ n_rejected' = n_rejected + (IF full THEN 1 ELSE 0)
        /\ n_accepted' = n_accepted + (IF stored THEN 1 ELSE 0)
        /\ appended' = IF stored THEN appended \o FrameBytes(info, now_us)
                                 ELSE appended
        /\ UNCHANGED << build, ticks, now, last_log, status_out, first_load,
                        cond_ge, operand, available, send_len, copy_from, written,
                        rh_load, drained, unsent >>
        /\ UNCHANGED blaster

\* One capture event: the driver calls wifi_csi_cb(ctx, info).  The callback
\* runs to completion between two steps of the task.
wifi_csi_cb ==
    /\ EventsLeft
    /\ \E info \in CsiInfo, gap \in ArrivalGaps :
         CaptureEvent(info, ClockAdd(clock_us, Clock(gap)))

\* ------------------------------------------------------------ usb_flush_task
\* pdTICKS_TO_MS(t): (TickType_t) (((uint64_t) t * 1000) / configTICK_RATE_HZ)
\* (a run stays below 2^32 ms).
pdTICKS_TO_MS(t) == (t * 1000) \div tick_rate_hz

\* Line 108: pdTICKS_TO_MS(xTaskGetTickCount()).
NowMs == pdTICKS_TO_MS(ticks)

\* Line 108: the tick count is read.
ReadTicks ==
    /\ pc = "heartbeat"
    /\ now' = NowMs
    /\ pc' = "log"
    /\ UNCHANGED << build, shared, clock_us, ticks, last_log, status_out, first_load,
                    cond_ge, operand, available, send_len, copy_from, chunk, written,
                    rh_load, history >>
    /\ UNCHANGED blaster

\* Line 109: now - last_log > 2000 (uint32_t).
HeartbeatDue(t, last) == U32Gt(U32Sub(t, last), HEARTBEAT_MS)

\* Lines 109-112: the heartbeat; line 110 reads g_packet_count.
Heartbeat ==
    /\ pc = "log"
    /\ IF HeartbeatDue(now, last_log)
       THEN /\ status_out' = Append(status_out, g_packet_count)
            /\ last_log' = now
       ELSE UNCHANGED << status_out, last_log >>
    /\ now' = 0
    /\ pc' = "compare"
    /\ UNCHANGED << build, shared, clock_us, ticks, first_load, cond_ge, operand,
                    available, send_len, copy_from, chunk, written, rh_load,
                    history >>
    /\ UNCHANGED blaster

\* The two cursors an expression of lines 114-116 reads.  C does not fix
\* the order of the two reads: either cursor is read first.
Cursors == {"g_write_head", "g_read_head"}

\* The cursor named, as it is now.
Cursor(name) == IF name = "g_write_head" THEN g_write_head ELSE g_read_head

\* The values of g_write_head and of g_read_head that an expression works on
\* when it reads its second cursor: the one read first, the other as it is now.
WriteHeadRead == IF first_load = "g_write_head" THEN operand ELSE g_write_head
ReadHeadRead == IF first_load = "g_read_head" THEN operand ELSE g_read_head

\* Line 114: the condition reads one cursor,
Compare ==
    /\ pc = "compare"
    /\ \E name \in Cursors :
         /\ first_load' = name
         /\ operand' = Cursor(name)
    /\ pc' = "compare_2"
    /\ UNCHANGED << build, shared, clock_us, ticks, now, last_log, status_out, cond_ge,
                    available, send_len, copy_from, chunk, written, rh_load,
                    history >>
    /\ UNCHANGED blaster

\* g_write_head >= g_read_head (uint32_t).
U32Ge(a, b) == ~U32Gt(b, a)

\* then the other, and compares.
CompareSecond ==
    /\ pc = "compare_2"
    /\ cond_ge' = U32Ge(WriteHeadRead, ReadHeadRead)
    /\ first_load' = "none"
    /\ operand' = 0
    /\ pc' = "subtract"
    /\ UNCHANGED << build, shared, clock_us, ticks, now, last_log, status_out,
                    available, send_len, copy_from, chunk, written, rh_load,
                    history >>
    /\ UNCHANGED blaster

\* Lines 114-116: the value of the selected operand (uint32_t).
AvailableBytes(ge, wh, rh) ==
    IF ge THEN U32Sub(wh, rh) ELSE U32Add(U32Sub(BUFFER_SIZE, rh), wh)

\* Lines 115-116: the selected operand reads one cursor,
Subtract ==
    /\ pc = "subtract"
    /\ \E name \in Cursors :
         /\ first_load' = name
         /\ operand' = Cursor(name)
    /\ pc' = "subtract_2"
    /\ UNCHANGED << build, shared, clock_us, ticks, now, last_log, status_out,
                    cond_ge, available, send_len, copy_from, chunk, written, rh_load,
                    history >>
    /\ UNCHANGED blaster

\* then the other, and computes available.
SubtractSecond ==
    /\ pc = "subtract_2"
    /\ available' = AvailableBytes(cond_ge, WriteHeadRead, ReadHeadRead)
    /\ cond_ge' = FALSE
    /\ first_load' = "none"
    /\ operand' = 0
    /\ pc' = "threshold"
    /\ UNCHANGED << build, shared, clock_us, ticks, now, last_log, status_out,
                    send_len, copy_from, chunk, written, rh_load,
                    history >>
    /\ UNCHANGED blaster

\* Line 118: available > 1024 (uint32_t).
AboveThreshold(avail) == U32Gt(avail, SEND_THRESHOLD)

\* Line 119: the length of the chunk before the clip.
SendLen(avail) == IF U32Gt(avail, CHUNK_SIZE) THEN CHUNK_SIZE ELSE avail

\* Line 120: g_read_head + send_len > BUFFER_SIZE (uint32_t).
ClipNeeded(rh, n) == U32Gt(U32Add(rh, n), BUFFER_SIZE)

\* Line 120: BUFFER_SIZE - g_read_head (uint32_t).
ClippedLen(rh) == U32Sub(BUFFER_SIZE, rh)

\* Line 118, true branch: line 119 and the condition of line 120, which reads
\* g_read_head.
Length ==
    /\ pc = "threshold"
    /\ AboveThreshold(available)
    /\ send_len' = SendLen(available)
    /\ available' = 0
    /\ pc' = IF ClipNeeded(g_read_head, SendLen(available)) THEN "clip" ELSE "copy"
    /\ UNCHANGED << build, shared, clock_us, ticks, now, last_log, status_out, first_load,
                    cond_ge, operand, copy_from, chunk, written, rh_load,
                    history >>
    /\ UNCHANGED blaster

\* Line 120: the assignment, which reads g_read_head again.
Clip ==
    /\ pc = "clip"
    /\ send_len' = ClippedLen(g_read_head)
    /\ pc' = "copy"
    /\ UNCHANGED << build, shared, clock_us, ticks, now, last_log, status_out, first_load,
                    cond_ge, operand, available, copy_from, chunk, written, rh_load,
                    history >>
    /\ UNCHANGED blaster

\* memcpy(chunk, &g_buffer[from], n) stays inside both arrays.
CopyDefined(from, n) ==
    /\ from >= 0 /\ from <= BUFFER_SIZE
    /\ n >= 0 /\ n <= BUFFER_SIZE - from
    /\ n <= CHUNK_SIZE

\* The longest copy out of the arrays that a build returns from: the memory
\* mapped around the statics is no larger.
MappedSpan == U16

\* A memcpy that leaves g_buffer or chunk need not end the program: a build
\* with memory mapped there returns from it, whether it is the source that
\* lies outside g_buffer or the length that exceeds sizeof(chunk).
CopySurvivable(from, n) == n >= 0 /\ n <= MappedSpan

\* chunk (ch before) after memcpy(chunk, src, n) copied bytes: the bytes past
\* the n-th keep what they held; a copy longer than the array goes on into
\* the memory after it.
Staged(ch, bytes) == bytes \o SubSeq(ch, Len(bytes) + 1, Len(ch))

\* memcpy(chunk, &g_buffer[from], n) with a source that starts before chunk
\* and runs into it (an "adjacent" build): the distance from the source to
\* chunk, else 0.
Overlap(lay, from, n) ==
    IF /\ lay = "adjacent"
       /\ from >= 0 /\ from < BUFFER_SIZE + ChunkAt
       /\ from + n > BUFFER_SIZE + ChunkAt
    THEN BUFFER_SIZE + ChunkAt - from
    ELSE 0

\* The bytes memcpy leaves in chunk when it read bytes at the start: a copy
\* whose source runs into chunk has undefined behaviour, and reads the bytes
\* as they were or as the copy itself has rewritten them.
memcpy(lay, from, bytes) ==
    LET d == Overlap(lay, from, Len(bytes))
    IN  IF d = 0 THEN {bytes}
        ELSE {bytes, [i \in 1..Len(bytes) |-> bytes[((i - 1) % d) + 1]]}

\* Line 121: the memcpy, which reads g_read_head for its source.  A copy
\* outside the arrays has undefined behaviour: it ends the program, or goes
\* on with the bytes it found.
Stage ==
    /\ pc = "copy"
    /\ copy_from' = g_read_head
    /\ unsent' = << >>
    /\ IF CopyDefined(g_read_head, send_len)
       THEN /\ chunk' = Staged(chunk, ReadBytes(layout, StoreNow, g_read_head,
                                                send_len, 0))
            /\ pc' = "write"
       ELSE \/ /\ pc' = "fault"
               /\ chunk' = chunk
            \/ /\ CopySurvivable(g_read_head, send_len)
               /\ \E other \in OtherMemory :
                   \E bytes \in memcpy(layout, g_read_head,
                                       ReadBytes(layout, StoreNow, g_read_head,
                                                 send_len, other)) :
                     chunk' = Staged(chunk, bytes)
               /\ pc' = "write"
    /\ past_end' = AfterImage(layout, past_end, g_write_head, g_read_head,
                              g_packet_count, chunk')
    /\ UNCHANGED << build, g_buffer, g_write_head, g_read_head, g_packet_count,
                    clock_us, ticks, now, last_log, status_out, first_load,
                    cond_ge, operand, available, send_len, written, rh_load,
                    n_accepted, n_rejected, n_malformed, appended, drained,
                    last_info >>
    /\ UNCHANGED blaster

\* Line 118, false branch: line 126, vTaskDelay(1).  The task is made ready
\* again by the next tick.
SleepUntil(last_tick) ==
    /\ pc = "threshold"
    /\ ~AboveThreshold(available)
    /\ ticks < last_tick
    /\ ticks' = U32Inc(ticks)
    /\ pc' = "heartbeat"
    /\ UNCHANGED << build, shared, clock_us, locals, history >>
    /\ UNCHANGED blaster

\* Line 126, in a run of MaxTicks ticks.
Sleep == SleepUntil(MaxTicks)

\* Line 124: the read cursor after the transport returned n, from the value
\* rh read for the addition.
AdvanceRead(rh, n) ==
    IF n > 0 THEN U32Mod(U32Add(rh, n), BUFFER_SIZE) ELSE rh

\* usb_serial_jtag_write_bytes(chunk, n, timeout): what it can return for a
\* chunk of n bytes: an error (-1), a timeout with nothing accepted (0), a
\* short write (of one byte, of all bytes but one), the whole chunk.
WriteResults(n) == {k \in {-1, 0, 1, n - 1, n} : k <= n}

\* Line 123, for a transport write that returns one of results, and the
\* test of written of line 124.  The transport reads the send_len bytes at
\* chunk; its timeout of pdMS_TO_TICKS(5) is less than a tick.
WriteReturns(results) ==
    /\ pc = "write"
    /\ \E n \in results :
        /\ written' = IF n > 0 THEN n ELSE 0
        /\ drained' = drained \o SubSeq(chunk, 1, n)
        /\ unsent' = SubSeq(chunk, (IF n > 0 THEN n ELSE 0) + 1, send_len)
        /\ pc' = IF n > 0 THEN "load" ELSE "heartbeat"
    /\ send_len' = 0
    /\ copy_from' = 0
    /\ UNCHANGED << build, shared, clock_us, ticks, now, last_log, status_out,
                    first_load, cond_ge, operand, available, chunk, rh_load,
                    n_accepted, n_rejected, n_malformed, appended, last_info >>
    /\ UNCHANGED blaster

\* Line 123.
Write == WriteReturns(WriteResults(send_len))

\* Line 124: the read of g_read_head for the addition.
LoadReadHead ==
    /\ pc = "load"
    /\ rh_load' = g_read_head
    /\ pc' = "store"
    /\ UNCHANGED << build, shared, clock_us, ticks, now, last_log, status_out,
                    first_load, cond_ge, operand, available, send_len, copy_from,
                    chunk, written, history >>
    /\ UNCHANGED blaster

\* Line 124: the assignment to g_read_head.
Store ==
    /\ pc = "store"
    /\ g_read_head' = AdvanceRead(rh_load, written)
    /\ past_end' = AfterImage(layout, past_end, g_write_head,
                              AdvanceRead(rh_load, written), g_packet_count, chunk)
    /\ written' = 0
    /\ rh_load' = 0
    /\ pc' = "heartbeat"
    /\ UNCHANGED << build, g_buffer, g_write_head, g_packet_count, clock_us, ticks,
                    now,
                    last_log, status_out, first_load, cond_ge, operand, available,
                    send_len, copy_from, chunk, history >>
    /\ UNCHANGED blaster

usb_flush_task ==
    \/ ReadTicks \/ Heartbeat \/ Compare \/ CompareSecond \/ Subtract
    \/ SubtractSecond \/ Length \/ Clip \/ Stage \/ Sleep \/ Write
    \/ LoadReadHead \/ Store

Next == wifi_csi_cb \/ usb_flush_task

Spec == Init /\ [][Next]_vars

\* ------------------------------------------------------------ short runs
\* One capture event of a short run.
wifi_csi_cb_few ==
    /\ n_accepted + n_rejected + n_malformed < MaxFewEvents
    /\ \E info \in CsiInfo, gap \in ArrivalGaps :
         CaptureEvent(info, ClockAdd(clock_us, Clock(gap)))

NextFew == wifi_csi_cb_few \/ usb_flush_task

SpecFew == Init /\ [][NextFew]_vars

\* ------------------------------------------------------------ payloads of any length
\* Payload lengths from one byte to a frame of almost the whole capacity.
AnyPayloadLens == {1, 7, BUFFER_SIZE - HEADER_SIZE - 1}

AnyLengthInfo ==
    { [info_null |-> FALSE, buf_null |-> FALSE, len |-> n, buf |-> CsiData(n),
       rssi |-> s, channel |-> RX_CHANNEL] : n \in AnyPayloadLens, s \in RssiValues }

\* One capture event whose payload has any of these lengths.
wifi_csi_cb_any_length ==
    /\ n_accepted + n_rejected + n_malformed < MaxAnyLengthEvents
    /\ \E info \in AnyLengthInfo, gap \in ArrivalGaps :
         CaptureEvent(info, ClockAdd(clock_us, Clock(gap)))

NextAnyLength ==
    \/ wifi_csi_cb_any_length
    \/ usb_flush_task

SpecAnyLength == Init /\ [][NextAnyLength]_vars

\* ------------------------------------------------------------ 16-bit payload lengths
\* info->len is a uint16_t: a usual length, and the largest one.
WidePayloadLens == {2, U16 - 1}

WideInfo ==
    { [info_null |-> FALSE, buf_null |-> FALSE, len |-> n, buf |-> CsiData(n),
       rssi |-> s, channel |-> RX_CHANNEL] : n \in WidePayloadLens, s \in RssiValues }

\* One capture event whose payload length is any of these 16-bit values.
wifi_csi_cb_wide ==
    /\ n_accepted + n_rejected + n_malformed < MaxWideEvents
    /\ \E info \in WideInfo, gap \in ArrivalGaps :
         CaptureEvent(info, ClockAdd(clock_us, Clock(gap)))

NextWide ==
    \/ wifi_csi_cb_wide
    \/ usb_flush_task

SpecWide == Init /\ [][NextWide]_vars

\* ------------------------------------------------------------ the scheduled task
\* The time between two capture events.
LiveArrivalGaps == {1100000}

\* A usual payload, and one whose frame ends one byte before the end of the
\* backing store.
LivePayloadLens == {2, BUFFER_SIZE - HEADER_SIZE - 1}

LiveInfo ==
    { [info_null |-> FALSE, buf_null |-> FALSE, len |-> n, buf |-> CsiData(n),
       rssi |-> s, channel |-> RX_CHANNEL] : n \in LivePayloadLens, s \in RssiValues }

\* One capture event after any of these gaps.
wifi_csi_cb_live ==
    /\ n_accepted + n_rejected + n_malformed < MaxLiveEvents
    /\ \E info \in LiveInfo, gap \in LiveArrivalGaps :
         CaptureEvent(info, ClockAdd(clock_us, Clock(gap)))

\* The state after construction in a build with one tick a second.
InitLive == Started(SlowTickRateHz)

\* Line 126, in a run long enough for a heartbeat to come due.
SleepLive == SleepUntil(MaxLiveTicks)

\* A step of the task in such a run.
usb_flush_task_live ==
    \/ ReadTicks \/ Heartbeat \/ Compare \/ CompareSecond \/ Subtract
    \/ SubtractSecond \/ Length \/ Clip \/ Stage \/ SleepLive \/ Write
    \/ LoadReadHead \/ Store

NextLive == wifi_csi_cb_live \/ usb_flush_task_live

\* usb_flush_task is a task of priority 20 that is always ready or in a
\* bounded wait (the transport write times out after 5 ms, vTaskDelay(1)
\* lasts one tick), and the callback returns: the scheduler runs the task
\* again and again.
SpecLive == InitLive /\ [][NextLive]_vars /\ WF_vars(usb_flush_task_live)

\* ------------------------------------------------------------ a responsive transport
\* usb_serial_jtag_write_bytes when the host reads: at least one byte of every
\* chunk offered is accepted.
AcceptingResults(n) == {k \in WriteResults(n) : k > 0}

WriteAccepted == WriteReturns(AcceptingResults(send_len))

\* A step of the task with a responsive transport.
usb_flush_task_accepted ==
    \/ ReadTicks \/ Heartbeat \/ Compare \/ CompareSecond \/ Subtract
    \/ SubtractSecond \/ Length \/ Clip \/ Stage \/ Sleep
    \/ WriteAccepted \/ LoadReadHead \/ Store

\* One capture event of a run in which the events stop before the last tick.
wifi_csi_cb_stopping ==
    /\ ticks < MaxTicks
    /\ n_accepted + n_rejected + n_malformed < MaxFewEvents
    /\ \E info \in CsiInfo, gap \in ArrivalGaps :
         CaptureEvent(info, ClockAdd(clock_us, Clock(gap)))

NextDrain == wifi_csi_cb_stopping \/ usb_flush_task_accepted

SpecDrain == Init /\ [][NextDrain]_vars /\ WF_vars(usb_flush_task_accepted)

\* ------------------------------------------------------------ long runs
\* The time between two capture events in a run of hours: the usual gap, and
\* a pause of 2000 s.
LongArrivalGaps == {1100000, 2000000000}

\* One capture event after any of these gaps.
wifi_csi_cb_long_run ==
    /\ n_accepted + n_rejected + n_malformed < MaxFewEvents
    /\ \E info \in ValidInfo, gap \in LongArrivalGaps :
         CaptureEvent(info, ClockAdd(clock_us, Clock(gap)))

NextLongRun ==
    \/ wifi_csi_cb_long_run
    \/ usb_flush_task

SpecLongRun == Init /\ [][NextLongRun]_vars

\* ------------------------------------------------------------ blaster_task
\* esp_now_send returns ESP_OK, or an error (the send buffers are full).
SendResults == {"ESP_OK", "ESP_ERR_ESPNOW_NO_MEM"}

\* payload.seq incremented after every call of esp_now_send.
SeqAfter_EverySend(result, s) == U32Inc(s)

\* Lines 79-87: payload.seq after esp_now_send returned result.
SeqAfter(result, s) == IF result = "ESP_OK" THEN U32Inc(s) ELSE s

\* Lines 46-73: payload.seq = 0; a failure to add the peer deletes the task,
\* a failure to set the rate aborts (ESP_ERROR_CHECK); else the loop starts.
blaster_setup ==
    /\ blaster_pc = "start"
    /\ seq' = 0
    /\ \E peer_ok \in BOOLEAN, rate_ok \in BOOLEAN :
         blaster_pc' = IF ~peer_ok THEN "deleted"
                       ELSE IF ~rate_ok THEN "aborted" ELSE "send"
    /\ UNCHANGED << sent, receiver >>

\* Lines 75-88: one iteration of the loop.
blaster_send ==
    /\ blaster_pc = "send"
    /\ Len(sent) < MaxSends
    /\ \E result \in SendResults :
         /\ sent' = Append(sent, [seq |-> seq, result |-> result])
         /\ seq' = SeqAfter(result, seq)
    /\ blaster_pc' = "send"
    /\ UNCHANGED receiver

blaster_task == blaster_setup \/ blaster_send

SpecBlaster == Init /\ [][blaster_task]_vars

\* ------------------------------------------------------------ properties
\* Bytes appended and not yet drained.
Occupied == Len(appended) - Len(drained)

\* Forward cyclic distance from a to b.
CyclicDistance(a, b) == (b - a + BUFFER_SIZE) % BUFFER_SIZE

\* Free space as the append contract counts it: the forward cyclic distance
\* from the write cursor to the read cursor, the whole capacity when empty.
FreeSpace(wh, rh) == IF wh = rh THEN BUFFER_SIZE ELSE CyclicDistance(wh, rh)

\* The n bytes of the backing store read cyclically from index from.
CyclicRead(buf, from, n) == [i \in 1..n |-> buf[(from + i - 1) % BUFFER_SIZE]]

IsPrefix(s, t) == Len(s) <= Len(t) /\ SubSeq(t, 1, Len(s)) = s

\* The step is a capture event that the callback stored / dropped as full /
\* ignored as malformed.
AcceptStep == n_accepted' = n_accepted + 1
RejectStep == n_rejected' = n_rejected + 1
MalformedStep == n_malformed' = n_malformed + 1

\* The step is a capture event (the callback ran, entry to return); the step
\* is a step of the drain task alone.
CallbackStep == AcceptStep \/ RejectStep \/ MalformedStep
TaskStep == pc' # pc /\ ~CallbackStep

\* C1: the bytes appended and not yet drained never exceed capacity - 1 (the
\* write cursor never passes the read cursor), and a capture event that finds
\* the buffer full is rejected.
C1_NoOverrun == Occupied <= BUFFER_SIZE - 1

\* C2: a capture event with a valid descriptor is stored if and only if the
\* free space exceeds the frame's total size, and is rejected otherwise.
C2_AcceptanceRule ==
    [][ /\ AcceptStep =>
            FreeSpace(g_write_head, g_read_head) > HEADER_SIZE + last_info'.len
        /\ RejectStep =>
            ~(FreeSpace(g_write_head, g_read_head) > HEADER_SIZE + last_info'.len)
      ]_vars

\* C3: the bytes the transport accepted are, in order, a prefix of the
\* concatenation of the accepted frames (header, then payload).
C3_FifoOrder == IsPrefix(drained, appended)

\* C4: an accepted frame that does not fit before the physical end of the
\* backing store is split across the end, so that the buffer read cyclically
\* from the old write cursor holds the frame's bytes.
C4_WraparoundAppend ==
    [][ (AcceptStep /\ g_write_head + HEADER_SIZE + last_info'.len > BUFFER_SIZE) =>
            CyclicRead(g_buffer', g_write_head, HEADER_SIZE + last_info'.len)
                = SubSeq(appended', Len(appended) + 1, Len(appended'))
      ]_vars

\* The step is the return of the transport write (line 123) / the assignment
\* to g_read_head that follows a write that accepted bytes (line 124, after
\* its read of g_read_head).
WriteStep == pc = "write" /\ pc' # pc /\ ~CallbackStep
StoreStep == pc = "store" /\ pc' # pc /\ ~CallbackStep

\* The bytes the last transport write left unaccepted are still occupied and
\* are the next bytes at the read cursor.
UnsentIntact ==
    /\ g_read_head \in 0..(BUFFER_SIZE - 1)
    /\ g_read_head + Len(unsent) <= BUFFER_SIZE
    /\ CyclicDistance(g_read_head, g_write_head) >= Len(unsent)
    /\ unsent = [i \in 1..Len(unsent) |-> g_buffer[g_read_head + i - 1]]

\* C5: a transport write that accepts k bytes of the chunk offered (nothing on
\* a timeout or an error) advances the read cursor by exactly k modulo the
\* capacity, the loop goes on to its next iteration, and the bytes not
\* accepted stay in the buffer, unchanged and first in line, until the next
\* chunk is staged.
C5_ShortWriteSafety ==
    [][ /\ WriteStep =>
            /\ drained' = drained \o SubSeq(chunk, 1, Len(drained') - Len(drained))
            /\ unsent' = SubSeq(chunk, Len(drained') - Len(drained) + 1, send_len)
            /\ g_read_head' = g_read_head
            /\ pc' = IF Len(drained') > Len(drained) THEN "load" ELSE "heartbeat"
        /\ StoreStep =>
            /\ g_read_head' = (g_read_head + written) % BUFFER_SIZE
            /\ written >= 1
            /\ pc' = "heartbeat"
        /\ pc' \notin {"load", "store"} => UnsentIntact'
      ]_vars

\* C6: the available-byte count of the drain task is the forward cyclic
\* distance from the read cursor to the write cursor and equals the bytes
\* appended minus the bytes drained, modulo the capacity: in every state for
\* the expression of lines 114-116 (once line 124 has counted the bytes the
\* transport accepted), and for the value the task computes in an iteration
\* whose reads of the cursors see them as they are when it ends.
C6_Conservation ==
    [][ /\ pc' \notin {"load", "store"} =>
             AvailableBytes(U32Ge(g_write_head', g_read_head'),
                            g_write_head', g_read_head') = Occupied' % BUFFER_SIZE
        /\ (pc = "subtract_2" /\ pc' = "threshold"
              /\ cond_ge = U32Ge(g_write_head, g_read_head)
              /\ operand = Cursor(first_load))
             => available' = Occupied % BUFFER_SIZE
      ]_vars

\* C7: g_packet_count minus the frames stored equals the events rejected for
\* lack of room plus the malformed events.
C7_DropAccounting ==
    g_packet_count - n_accepted = n_rejected + n_malformed

\* C8: a capture event rejected by the fullness test writes no byte of the
\* backing store, nor past its end (the memory there changes only where an
\* adjacent build holds g_packet_count, which line 56 has incremented), and
\* leaves both cursors unchanged.
C8_RejectedAppendNoEffect ==
    [][ RejectStep =>
            /\ g_buffer' = g_buffer
            /\ Len(past_end') = Len(past_end)
            /\ \A i \in 1..Len(past_end) :
                  past_end'[i] # past_end[i] =>
                      (layout = "adjacent" /\ i > PacketCountAt
                                            /\ i <= PacketCountAt + 4)
            /\ g_write_head' = g_write_head
            /\ g_read_head' = g_read_head
            /\ appended' = appended
            /\ pc' = pc
      ]_vars

C8_Witness ==
    /\ n_rejected >= 1
    /\ ~EventMalformed(last_info)
    /\ BufferFull(last_info, g_write_head, g_read_head)
    /\ Occupied > 0

\* C9: a malformed capture event (null descriptor, null payload or zero
\* length) leaves the backing store, both cursors and g_packet_count unchanged.
C9_MalformedNoOp ==
    [][ MalformedStep =>
            /\ g_buffer' = g_buffer
            /\ past_end' = past_end
            /\ g_write_head' = g_write_head
            /\ g_read_head' = g_read_head
            /\ g_packet_count' = g_packet_count
            /\ pc' = pc
      ]_vars

C9_Witness ==
    /\ n_malformed >= 1
    /\ ~last_info.info_null
    /\ last_info.len = 0
    /\ n_accepted >= 1
    /\ g_packet_count = n_accepted + n_rejected

\* C10: when the drain task uses its available-byte value for the threshold
\* test and the chunk length, the value does not exceed the bytes occupied.
C10_ConservativeAvailable ==
    pc = "threshold" => U32Le(available, Occupied)

\* C11: a capture event leaves g_read_head unchanged; a step of the drain task
\* leaves g_write_head, g_packet_count and the backing store unchanged;
\* g_write_head changes only in an accepted append, and g_read_head only in
\* the assignment that follows a transport write that accepted at least one
\* byte.
C11_SingleWriter ==
    [][ /\ CallbackStep => g_read_head' = g_read_head
        /\ TaskStep => /\ g_write_head' = g_write_head
                       /\ g_packet_count' = g_packet_count
                       /\ g_buffer' = g_buffer
        /\ g_write_head' # g_write_head => AcceptStep
        /\ g_read_head' # g_read_head => (StoreStep /\ written >= 1)
      ]_vars

\* C12: both cursors are byte offsets in [0, capacity), whatever the payload
\* lengths of the capture events and whatever the transport writes return.
C12_CursorRange ==
    /\ g_write_head \in 0..(BUFFER_SIZE - 1)
    /\ g_read_head \in 0..(BUFFER_SIZE - 1)

\* The step is the threshold test of a drain iteration (line 118) that ends
\* in the sleep of line 126 / that takes the branch of lines 119-124.
SleepStep == pc = "threshold" /\ pc' = "heartbeat"
SendStep == pc = "threshold" /\ pc' \in {"clip", "copy"}

\* The claim's reading of the threshold test at a count equal to the
\* threshold: the iteration sleeps only below the threshold and sends from the
\* threshold on.  Line 118 tests available > 1024: at exactly the threshold
\* the iteration sleeps.
SendThresholdAtLeast ==
    [][ /\ SleepStep => (U32Le(available, SEND_THRESHOLD) /\ available # SEND_THRESHOLD)
        /\ SendStep => (U32Gt(available, SEND_THRESHOLD) \/ available = SEND_THRESHOLD)
      ]_vars

\* C13: a drain iteration sleeps, offering nothing to the transport and
\* leaving the read cursor, only when the available-byte count does not
\* exceed the threshold, and takes the branch of lines 119-124 only when the
\* count is at least the threshold (a count equal to the threshold is left
\* open); an iteration that takes that branch offers a chunk to the transport
\* in that iteration: it goes on through lines 119-121 to the transport write
\* of line 123, which is called with the chunk computed, of at least one byte.
C13_SendThreshold ==
    [][ /\ SleepStep => /\ U32Le(available, SEND_THRESHOLD)
                        /\ UNCHANGED << g_read_head, drained, unsent, chunk, send_len >>
        /\ SendStep => /\ (U32Gt(available, SEND_THRESHOLD)
                              \/ available = SEND_THRESHOLD)
                       /\ UNCHANGED << g_read_head, drained, unsent, chunk >>
        /\ (pc = "threshold" /\ TaskStep) => (SleepStep \/ SendStep)
        /\ (pc = "clip" /\ TaskStep) => pc' = "copy"
        /\ (pc = "copy" /\ TaskStep) => pc' = "write"
        /\ WriteStep => /\ send_len >= 1
                        /\ Len(drained') + Len(unsent') = Len(drained) + send_len
      ]_vars

\* The smaller of two uint32_t values.
U32Min(a, b) == IF U32Gt(a, b) THEN b ELSE a

\* The steps of lines 119-121.
LengthStep == SendStep
ClipStep == pc = "clip" /\ TaskStep
CopyStep == pc = "copy" /\ TaskStep

\* C14: a staged chunk has length min(available, staging-buffer size,
\* capacity - g_read_head), at least 1 (line 120 clips the length of line 119
\* exactly when it is the larger); its bytes are those at the indices
\* g_read_head .. g_read_head + length - 1 of the backing store, all below the
\* capacity; computing and copying the chunk moves neither cursor.
C14_ChunkBounds ==
    [][ /\ LengthStep =>
              /\ send_len' = U32Min(available, CHUNK_SIZE)
              /\ (pc' = "clip") = (BUFFER_SIZE - g_read_head < send_len')
        /\ ClipStep =>
              /\ send_len' = BUFFER_SIZE - g_read_head
              /\ send_len' < send_len
        /\ CopyStep =>
              /\ pc' = "write"
              /\ send_len >= 1
              /\ g_read_head \in 0..(BUFFER_SIZE - 1)
              /\ g_read_head + send_len <= BUFFER_SIZE
              /\ SubSeq(chunk', 1, send_len)
                    = [i \in 1..send_len |-> g_buffer[g_read_head + i - 1]]
        /\ (LengthStep \/ ClipStep \/ CopyStep) =>
              UNCHANGED << g_read_head, g_write_head >>
      ]_vars

\* C15: an accepted append advances g_write_head, modulo the capacity, by
\* exactly header size + payload length, for every payload length of 16 bits.
C15_FrameSize ==
    [][ AcceptStep =>
          /\ total_len(last_info') = HEADER_SIZE + last_info'.len
          /\ CyclicDistance(g_write_head, g_write_head')
                = (HEADER_SIZE + last_info'.len) % BUFFER_SIZE
      ]_vars

\* The timestamp fields of the frames in a stream of frame bytes, in order,
\* each as its four little-endian bytes.
RECURSIVE Timestamps(_)
Timestamps(bytes) ==
    IF Len(bytes) < HEADER_SIZE THEN << >>
    ELSE << SubSeq(bytes, 7, 10) >>
           \o Timestamps(SubSeq(bytes, HEADER_SIZE + bytes[3] + (256 * bytes[4]) + 1,
                                Len(bytes)))

\* a <= b for two 32-bit values given as little-endian bytes.
StampLe(a, b) ==
    LET ah == a[3] + (256 * a[4])
        al == a[1] + (256 * a[2])
        bh == b[3] + (256 * b[4])
        bl == b[1] + (256 * b[2])
    IN  ah < bh \/ (ah = bh /\ al <= bl)

\* C16: the timestamp fields of the headers of successively accepted frames
\* are non-decreasing over the whole run.
C16_MonotonicTimestamps ==
    \A k \in 1..(Len(Timestamps(appended)) - 1) :
        StampLe(Timestamps(appended)[k], Timestamps(appended)[k + 1])

\* More than 2000 ms have passed since the status line last printed.
StatusDue == U32Gt(U32Sub(NowMs, last_log), HEARTBEAT_MS)

\* The task has slept through the last tick of the run and is about to sleep.
RunEnds == pc = "threshold" /\ ~AboveThreshold(available) /\ ticks = MaxLiveTicks

\* C17: with the task scheduled again and again, whatever the transport
\* returns (nothing accepted forever included), the drain loop keeps
\* completing iterations as long as the run lasts; once more than 2000 ms
\* have passed since the last status line, a status line is printed, none is
\* printed sooner, and each reports g_packet_count as it is when the line is
\* printed; the program never ends in a fault, so that a capture event can
\* run in every state of the task.
C17_NeverFreezes ==
    /\ []<>(pc = "heartbeat" \/ RunEnds)
    /\ []<>(pc = "threshold")
    /\ (StatusDue ~> ~StatusDue)
    /\ [][ status_out' # status_out =>
              /\ U32Gt(U32Sub(now, last_log), HEARTBEAT_MS)
              /\ status_out' = Append(status_out, g_packet_count)
              /\ last_log' = now
          ]_vars
    /\ [](pc # "fault")

\* C18: an accepted append writes no byte past the end of the backing store
\* (the memory there changes only as lines 56 and 77 assign g_packet_count
\* and g_write_head in an adjacent build, and g_read_head does not change),
\* and the bytes g_write_head advances over hold the frame's header and
\* payload.
C18_WritesInsideStore ==
    [][ AcceptStep =>
          /\ past_end' = AfterImage(layout, past_end, g_write_head', g_read_head,
                                    U32Inc(g_packet_count), chunk)
          /\ g_read_head' = g_read_head
          /\ g_packet_count' = U32Inc(g_packet_count)
          /\ pc' = pc
          /\ CyclicRead(g_buffer', g_write_head,
                        CyclicDistance(g_write_head, g_write_head'))
                = SubSeq(appended', Len(appended) + 1, Len(appended'))
      ]_vars

\* C19: with the task scheduled again and again and a transport that accepts
\* at least one byte of every chunk, the task does not rest while more than
\* the threshold is occupied: once the capture events have stopped, the bytes
\* occupied fall to the threshold or below and stay there, and g_read_head no
\* longer changes.
C19_DrainProgress ==
    /\ <>[](Occupied <= SEND_THRESHOLD)
    /\ <>[][g_read_head' = g_read_head]_vars

\* The packets esp_now_send queued successfully, in order.
Queued == SelectSeq(sent, LAMBDA r : r.result = "ESP_OK")

\* C20: payload.seq is 0 when the loop starts, one more after a send that
\* returns ESP_OK and unchanged after a failed send, which is retried with the
\* same seq; the n-th packet queued successfully carries seq n - 1; the loop,
\* once started, is never left and its next send is always possible.
C20_SequenceNumbers ==
    /\ [](\A n \in 1..Len(Queued) : Queued[n].seq = n - 1)
    /\ []((blaster_pc = "send" /\ sent = << >>) => seq = 0)
    /\ [][ Len(sent') = Len(sent) + 1 =>
              /\ sent'[Len(sent')].seq = seq
              /\ sent'[Len(sent')].result = "ESP_OK" => seq' = seq + 1
              /\ sent'[Len(sent')].result # "ESP_OK" => seq' = seq
          ]_vars
    /\ [][blaster_pc = "send" => blaster_pc' = "send"]_vars
    /\ []((blaster_pc = "send" /\ Len(sent) < MaxSends) => ENABLED blaster_send)

\* A failed send was retried with the same seq and queued, and three packets
\* have been queued.
C20_Witness ==
    /\ Len(Queued) >= 3
    /\ seq = Len(Queued)
    /\ \E i \in 1..(Len(sent) - 1) :
          /\ sent[i].result # "ESP_OK"
          /\ sent[i + 1].result = "ESP_OK"
          /\ sent[i + 1].seq = sent[i].seq
          /\ sent[i].seq > 0

====
